---- MODULE Spec2Model ----
(***************************************************************************)
(* Model of the titan-kernel dependency-injection container                *)
(* (src/src/core/container.ts, lazy-proxy.ts, forward-ref.ts,              *)
(* inject.decorator.ts).                                                   *)
(*                                                                         *)
(* The container is a synchronous, single-threaded recursive resolver.     *)
(* resolve() is modelled as a stack machine: `stack' holds one frame per   *)
(* resolve() activation that is inside resolveDependencies(), and `ctl'    *)
(* is the control register (a pending call, a returned value, a thrown     *)
(* error, or the dependency loop of the top frame).  Operations of the     *)
(* application (register, resolve, touching a lazy proxy) start only when  *)
(* the machine is idle, because JavaScript runs each call to completion.   *)
(***************************************************************************)
EXTENDS Integers, Sequences, FiniteSets, Bags, TLC

VARIABLES
    prog,       \* the set of classes the application declares
    metadata,   \* DIContainer.metadata : target -> ServiceMetadata
    services,   \* DIContainer.services : target.name -> target
    instances,  \* DIContainer.instances: target -> object
    objs,       \* the objects built by `new target(...dependencies)'
    handles,    \* the LazyProxy objects: _factory and _instance
    stack,      \* activations of resolve() inside resolveDependencies()
    ctl,        \* control register of the resolver
    cur,        \* the application-level operation in progress
    last,       \* the outcome of the last finished resolve / touch
    returned,   \* history: objects ever returned by resolve(target)
    ctorCount,  \* history: how often `new target' ran
    lastReg,    \* the last register() / @Module, and the Registrations
                \* and the cached instances its targets had before it
    boot,       \* TitanKernel.bootstrap in progress: its position and locals
    db,         \* DatabaseService: its fields, its timers and calls in flight
    logger,     \* TitanLoggerService: its fields and the writes it made
    socket      \* SocketService: its fields and the registrations invoked

vars == <<prog, metadata, services, instances, objs, handles, stack, ctl,
          cur, last, returned, ctorCount, lastReg, boot, db, logger, socket>>

\* the variables of the container and of the kernel
kernelVars == <<metadata, services, instances, objs, handles, stack, ctl,
                cur, last, returned, ctorCount, lastReg, boot>>

----------------------------------------------------------------------------
(* Bounds *)

\* depth of nested resolve() activations the JavaScript call stack allows
MaxDepth == 4

\* how often the factory of one proxy is invoked (retries after a throw)
MaxFactoryCalls == 2

\* the largest retryAttempts the application passes to connect()
MaxRetries == 2

\* the attempts of one round of attemptReconnection (maxAttempts, 5 in the
\* source)
MaxAttempts == 2

\* log entries created in one run
MaxEntries == 2

\* registerEvents calls in one run
MaxRegistrations == 3

----------------------------------------------------------------------------
(* Tokens: what a constructor parameter position names *)

Cls(c) == [ref |-> "class", cls |-> c]
Fwd(c) == [ref |-> "forward", cls |-> c]
NoToken == [ref |-> "none", cls |-> ""]

\* forward-ref.ts: isForwardRef(value)
isForwardRef(tok) == tok.ref = "forward"

----------------------------------------------------------------------------
(* The declared classes.  Each program is a set of class declarations; the *)
(* reflect-metadata of a class is fixed by its declaration.                *)

Programs ==
    { {"ServiceA", "ServiceB"},            \* README: two-party cycle
      {"ServiceC", "ServiceD"},            \* README: forwardRef to a later class
      {"Logger", "Config", "UserService"}, \* acyclic graph
      {"A", "B", "C"},                     \* three-party cycle, no forwardRef
      {"FwdA", "FwdB", "FwdC"},            \* three-party cycle, one forwardRef
      {"UserModule", "AccountService", "UserGateway"},
                                           \* README: @Module(metadata)
      {"users/UserController", "admin/UserController", "UsersModule"},
                                           \* two classes named UserController
      {"CoreModule", "AdminModule", "TokenService", "AdminService"},
                                           \* README: imports and exports
      {"ModuleA", "ModuleB", "ProviderA"}, \* two modules importing each other
      {"DatabaseService"},                 \* an application using the database
      {"TitanLoggerService"},              \* an application using the logger
      {"SocketService"},                   \* README: Socket Service
      {"OvA", "OvB"},                      \* two-party cycle through @Inject
      {"HostService", "PluginService"},    \* @Inject(HostService) on a
                                           \* parameter typed by an interface
      {"TransientService", "Consumer"} }   \* providedIn: 'transient' or
                                           \* 'singleton'

AllClasses == UNION Programs

\* the services whose objects these programs take as already built, and do
\* not register or resolve through the container
BuiltServices == {"DatabaseService", "TitanLoggerService", "SocketService"}

\* Reflect.getMetadata('design:paramtypes', target) || []
ParamTypes(c) ==
    CASE c = "ServiceA"    -> << Cls("ServiceB") >>
      [] c = "ServiceB"    -> << Cls("ServiceA") >>
      [] c = "ServiceC"    -> << NoToken >>
      [] c = "UserService" -> << Cls("Config"), Cls("Logger") >>
      [] c = "A"           -> << Cls("B") >>
      [] c = "B"           -> << Cls("C") >>
      [] c = "C"           -> << Cls("A") >>
      [] c = "FwdA"        -> << Cls("FwdB") >>
      [] c = "FwdB"        -> << Cls("FwdC") >>
      [] c = "FwdC"        -> << Cls("FwdA") >>
      [] c = "AdminService" -> << Cls("TokenService") >>
      [] c = "OvA"         -> << Cls("OvB") >>
      [] c = "OvB"         -> << Cls("OvA") >>
      [] c = "HostService" -> << Cls("PluginService") >>
      [] c = "PluginService" -> << NoToken >>
      [] c = "Consumer"    -> << Cls("TransientService") >>
      [] OTHER             -> << >>

\* Reflect.getMetadata('self:paramtypes', target) || [] : written by @Inject
SelfParamTypes(c) ==
    CASE c = "ServiceC"    -> << Fwd("ServiceD") >>
      [] c = "FwdC"        -> << Fwd("FwdA") >>
      [] c = "OvA"         -> << Cls("OvB") >>
      [] c = "OvB"         -> << Cls("OvA") >>
      [] c = "PluginService" -> << Cls("HostService") >>
      [] OTHER             -> << >>

\* target.name: classes declared in different files may share a name
ClassName(c) ==
    CASE c = "users/UserController" -> "UserController"
      [] c = "admin/UserController" -> "UserController"
      [] OTHER                      -> c

\* types.ts, ModuleMetadata: the argument of @Module on a module class
NoModule == [providers |-> << >>, imports |-> << >>, exports |-> << >>,
             controllers |-> << >>, gateways |-> << >>]

ModuleMetadata(m) ==
    CASE m = "UserModule" ->
            [NoModule EXCEPT !.providers = << "AccountService" >>,
                             !.gateways = << "UserGateway" >>]
      [] m = "UsersModule" ->
            [NoModule EXCEPT !.controllers = << "users/UserController" >>]
      [] m = "CoreModule" ->
            [NoModule EXCEPT !.providers = << "TokenService" >>]
      [] m = "AdminModule" ->
            [NoModule EXCEPT !.imports = << "CoreModule" >>,
                             !.providers = << "AdminService" >>]
      [] m = "ModuleA" ->
            [NoModule EXCEPT !.imports = << "ModuleB" >>,
                             !.providers = << "ProviderA" >>]
      [] m = "ModuleB" ->
            [NoModule EXCEPT !.imports = << "ModuleA" >>]
      [] OTHER -> NoModule

\* the classes that carry @Module
ModuleClasses ==
    {"UserModule", "UsersModule", "CoreModule", "AdminModule",
     "ModuleA", "ModuleB"}

\* the decorators a class carries besides @Module: the (type, options) each
\* of them registers (@Injectable, @Controller, @Component); a class with
\* none is registered only by the module that lists it
Decls(c) ==
    CASE c \in ModuleClasses -> {}
      [] c \in {"TokenService", "AdminService", "ProviderA", "UserGateway"}
            -> {}
      [] c \in BuiltServices -> {}
      [] c = "AccountService" ->
            { [type |-> "injectable", options |-> "{}"],
              [type |-> "component", options |-> "singleton"] }
      [] c = "users/UserController" ->
            { [type |-> "controller", options |-> "/users"] }
      [] c = "admin/UserController" ->
            { [type |-> "controller", options |-> "/admin"] }
      [] c = "TransientService" ->
            { [type |-> "injectable", options |-> "transient"],
              [type |-> "injectable", options |-> "singleton"] }
      [] OTHER -> { [type |-> "injectable", options |-> "{}"] }

----------------------------------------------------------------------------
(* Helpers *)

Put(f, k, v) == [x \in DOMAIN f \cup {k} |-> IF x = k THEN v ELSE f[x]]

Drop(f, ks) == [x \in DOMAIN f \ ks |-> f[x]]

Empty == [x \in {} |-> 0]

NewId(used) == CHOOSE n \in 1..(Cardinality(used) + 1) : n \notin used

Inst(o) == [k |-> "inst", id |-> o]
Lazy(h) == [k |-> "lazy", id |-> h]

NoObj == 0

Idle == [op |-> "idle", target |-> "", val |-> NoObj, err |-> ""]
Call(t) == [op |-> "call", target |-> t, val |-> NoObj, err |-> ""]
Ret(o) == [op |-> "ret", target |-> "", val |-> o, err |-> ""]
Throw(e) == [op |-> "throw", target |-> "", val |-> NoObj, err |-> e]
Deps == [op |-> "deps", target |-> "", val |-> NoObj, err |-> ""]

NoOp == [op |-> "none", target |-> "", h |-> 0, kind |-> "",
         regs |-> {}, inst0 |-> Empty, calls |-> {}, thunks |-> {},
         invoked |-> FALSE, mat0 |-> NoObj,
         injectables |-> {}, ctx |-> Empty]

NoLast == [op |-> "none", target |-> "", h |-> 0, kind |-> "",
           outcome |-> "", val |-> NoObj, regs |-> {}, cached0 |-> {},
           grew |-> FALSE, calls |-> {}, thunks |-> {},
           invoked |-> FALSE, mat0 |-> NoObj,
           injectables |-> {}, ctx |-> Empty]

Finish(c, outcome, val, inst) ==
    [op |-> c.op, target |-> c.target, h |-> c.h, kind |-> c.kind,
     outcome |-> outcome, val |-> val, regs |-> c.regs,
     cached0 |-> DOMAIN c.inst0, grew |-> (inst # c.inst0),
     calls |-> c.calls, thunks |-> c.thunks,
     invoked |-> c.invoked, mat0 |-> c.mat0,
     injectables |-> c.injectables, ctx |-> c.ctx]

Top == stack[Len(stack)]
Pop == SubSeq(stack, 1, Len(stack) - 1)

Range(f) == { f[x] : x \in DOMAIN f }

\* the registry: both maps that register() writes
Registry == [metadata |-> metadata, services |-> services]

Restrict(f, S) == [x \in DOMAIN f \cap S |-> f[x]]

NoReg == [op |-> "none", target |-> "", type |-> "", options |-> "",
          outcome |-> "", prev |-> Empty, inst0 |-> Empty]

BootOff == [phase |-> "off", services |-> {}, todo |-> {}]

\* control is inside bootstrap(), between two calls of container.resolve
InBoot == [op |-> "boot", target |-> "", val |-> NoObj, err |-> ""]

\* the programs that create a TitanKernel and call bootstrap()
Bootstrapped ==
    { {"users/UserController", "admin/UserController", "UsersModule"},
      {"CoreModule", "AdminModule", "TokenService", "AdminService"} }

----------------------------------------------------------------------------
(* container.ts *)

\* a register that keeps the first Registration of a target
RegisteredKeepFirst(reg, c, t, o) ==
    IF c \in DOMAIN reg.metadata
    THEN reg
    ELSE [metadata |-> Put(reg.metadata, c,
                           [type |-> t, target |-> c, options |-> o]),
          services |-> Put(reg.services, ClassName(c), c)]

\* register(target, type, options), lines 11-15, as a function of the registry
Registered(reg, c, t, o) ==
    [metadata |-> Put(reg.metadata, c,
                      [type |-> t, target |-> c, options |-> o]),
     services |-> Put(reg.services, ClassName(c), c)]

\* getAllServices(), lines 65-67
getAllServices == Range(services)

\* getInjectables / getControllers / getGateways / getModules /
\* getComponents, lines 69-83 and 119-121
OfType(t) == { m \in Range(metadata) : m.type = t }

\* getInjectableClasses / getControllerClasses / getGatewayClasses /
\* getComponentClasses, lines 85-102
ClassesOfType(t) == { m.target : m \in OfType(t) }

\* findAllClasses(), lines 107-117
findAllClasses ==
    UNION { ClassesOfType(t) :
              t \in {"injectable", "controller", "gateway", "module",
                     "component"} }

\* a resolve that never finds the target in the cache
IsCachedNever(t) == FALSE

\* a resolve that builds a new object for a class registered as transient
IsCachedUnlessTransient(t) ==
    /\ t \in DOMAIN instances
    /\ ~(t \in DOMAIN metadata /\ metadata[t].options = "transient")

\* resolve, line 18: this.instances.has(target)
IsCached(t) == t \in DOMAIN instances

\* a resolve without the check for a missing registration
HasMetadataUnchecked(t) == TRUE

\* resolve, lines 22-23: this.metadata.get(target) is defined
HasMetadata(t) == t \in DOMAIN metadata

\* a resolve that forgets to store the new instance
CacheInstanceForgotten(t, o) == instances

\* resolve, line 30: this.instances.set(target, instance)
CacheInstance(t, o) == Put(instances, t, o)

\* a guard that defers every dependency
hasCircularDependencyAlways(target, dependency) == TRUE

\* a guard that never sees a cycle
hasCircularDependencyNever(target, dependency) == FALSE

\* hasCircularDependency(target, dependency), lines 60-63
hasCircularDependency(target, dependency) ==
    \E i \in 1..Len(ParamTypes(dependency)) :
        ParamTypes(dependency)[i] = Cls(target)

\* the decorator at a parameter index (paramDecorators[index])
Decorator(target, index) ==
    IF index \in 1..Len(SelfParamTypes(target))
    THEN SelfParamTypes(target)[index]
    ELSE NoToken

\* a forward reference that is resolved at once instead of deferred
ForwardProxyEager(tok) == [lazy |-> FALSE, tok |-> tok]

\* resolveDependencies, lines 43 and 49:
\* new LazyProxy(() => this.resolve(token.forwardRef()))
ForwardProxy(tok) == [lazy |-> TRUE, tok |-> tok]

\* a cycle proxy whose factory resolves the class under construction
CircularProxySelf(target, paramType) == [lazy |-> TRUE, tok |-> Cls(target)]

\* resolveDependencies, line 53: new LazyProxy(() => this.resolve(paramType))
CircularProxy(target, paramType) == [lazy |-> TRUE, tok |-> paramType]

\* the map callback reading the parameters from the last to the first
SlotPlanReversed(target, index) ==
    LET i == Len(ParamTypes(target)) + 1 - index
        paramType == ParamTypes(target)[i]
        decorator == Decorator(target, i)
    IN  IF decorator # NoToken
        THEN IF isForwardRef(decorator)
             THEN ForwardProxy(decorator)
             ELSE [lazy |-> FALSE, tok |-> decorator]
        ELSE IF isForwardRef(paramType)
        THEN ForwardProxy(paramType)
        ELSE IF hasCircularDependency(target, paramType.cls)
        THEN CircularProxy(target, paramType)
        ELSE [lazy |-> FALSE, tok |-> paramType]

\* resolveDependencies, lines 38-57: what the map callback does for one
\* parameter: build a LazyProxy over a token, or resolve a class now
SlotPlan(target, index) ==
    LET paramType == ParamTypes(target)[index]
        decorator == Decorator(target, index)
    IN  IF decorator # NoToken
        THEN IF isForwardRef(decorator)
             THEN ForwardProxy(decorator)
             ELSE [lazy |-> FALSE, tok |-> decorator]
        ELSE IF isForwardRef(paramType)
        THEN ForwardProxy(paramType)
        ELSE IF hasCircularDependency(target, paramType.cls)
        THEN CircularProxy(target, paramType)
        ELSE [lazy |-> FALSE, tok |-> paramType]

----------------------------------------------------------------------------
(* decorators/module.ts *)

ModuleLists == << "providers", "controllers", "gateways" >>

\* every kind the same
ListKindInjectable(list) == "injectable"

\* the ServiceType each list of the metadata is registered with
ListKind(list) ==
    CASE list = "providers"   -> "injectable"
      [] list = "controllers" -> "controller"
      [] list = "gateways"    -> "gateway"

\* the identities a module lists
Listed(m) ==
    UNION { Range(ModuleMetadata(m)[ModuleLists[i]]) : i \in 1..3 }

\* metadata.<list>.forEach, lines 9-15, 17-23, 25-31: an entry that
\* getAllServices() does not include is registered with options {}
RECURSIVE RegisterListed(_, _, _)
RegisterListed(reg, xs, list) ==
    IF xs = << >>
    THEN reg
    ELSE RegisterListed(
             IF Head(xs) \in Range(reg.services)
             THEN reg
             ELSE Registered(reg, Head(xs), ListKind(list), "{}"),
             Tail(xs), list)

\* the decorator returned by Module(metadata), lines 5-33, as a function of
\* the registry; the options of the module are its metadata object, named
\* here by the module
Composed(reg, m) ==
    LET md == ModuleMetadata(m)
        r0 == Registered(reg, m, "module", m)
        r1 == RegisterListed(r0, md.providers, "providers")
        r2 == RegisterListed(r1, md.controllers, "controllers")
    IN  RegisterListed(r2, md.gateways, "gateways")

----------------------------------------------------------------------------
(* services/database.service.ts.  mongoose is the environment: `link' is   *)
(* the state of its connection, a connection attempt succeeds or fails,    *)
(* and it emits 'disconnected', 'error' and 'reconnected'.                 *)

NoCall == [phase |-> "idle", attempt |-> 0, max |-> 0]

\* how a connect() ended: `made' attempts of at most `max'
Ended(outcome, made, max, connected) ==
    [outcome |-> outcome, within |-> made <= max, all |-> made = max,
     connected |-> connected]

NoConnect == Ended("none", 0, 0, FALSE)

\* the fields of a new DatabaseService, lines 23-29
NewDatabase ==
    [isConnected |-> FALSE, connection |-> FALSE, currentConfig |-> FALSE,
     reconnectionTimeout |-> "none", isReconnecting |-> FALSE,
     listening |-> FALSE,     \* the listeners of lines 71-91 are installed
     link |-> "closed",       \* mongoose.connection: up, dropped, closed
     retries |-> {},          \* pending timers of line 322, by attempt
     inflight |-> {},         \* attemptReconnection calls at their await
     call |-> NoCall,         \* the connect() in progress
     closing |-> FALSE,       \* disconnect() is at its await
     lastConnect |-> NoConnect,
     manual |-> FALSE,        \* disconnect() completed, no connect() since
     auto |-> FALSE,          \* a reconnection attempt began while `manual'
     lost |-> FALSE]          \* an event was handled, not connected since

\* scheduleReconnection, lines 260-274
scheduleReconnection(d) ==
    IF d.isReconnecting \/ d.isConnected
    THEN d
    ELSE [d EXCEPT !.reconnectionTimeout = "pending"]

\* the 'disconnected' and the 'error' listener, lines 71-81
OnDisconnected(d) ==
    IF d.listening
    THEN scheduleReconnection([d EXCEPT !.isConnected = FALSE,
                                        !.lost = TRUE])
    ELSE d

\* the 'reconnected' listener, lines 83-91
OnReconnected(d) ==
    IF d.listening
    THEN [d EXCEPT !.isConnected = TRUE, !.isReconnecting = FALSE,
                   !.reconnectionTimeout = "none", !.lost = FALSE]
    ELSE d

\* await mongoose.disconnect(): the connection closes and 'disconnected'
\* is emitted
Closed(d) ==
    IF d.link = "up"
    THEN OnDisconnected([d EXCEPT !.link = "closed"])
    ELSE [d EXCEPT !.link = "closed"]

\* one attempt more than retryAttempts
ExhaustedLate(attempt, max) == attempt > max

\* line 101: currentAttempt >= maxRetries
Exhausted(attempt, max) == attempt >= max

\* attemptReconnection, lines 277-286: up to the first await
attemptReconnection(d, attempt) ==
    IF d.isConnected \/ ~d.currentConfig
    THEN d
    ELSE IF d.isReconnecting
    THEN d
    ELSE [d EXCEPT !.isReconnecting = TRUE,
                   !.inflight = @ \cup {attempt},
                   !.auto = @ \/ d.manual]

\* a service that stops after the last attempt of a round
AfterFailureGiveUp(d, attempt) ==
    IF attempt >= MaxAttempts
    THEN d
    ELSE [d EXCEPT !.retries = @ \cup {attempt + 1}]

\* attemptReconnection, lines 311-325: after a failed attempt
AfterFailure(d, attempt) ==
    IF attempt >= MaxAttempts
    THEN scheduleReconnection(d)
    ELSE [d EXCEPT !.retries = @ \cup {attempt + 1}]

----------------------------------------------------------------------------
(* services/titan-logger.service.ts *)

\* models/log.model.ts, lines 34-40, and the table of README lines 399-406
NONE == 0
INFO == 1
ERROR == 2
WARN == 3
DEBUG == 4
VERBOSE == 5
LogLevels == NONE..VERBOSE

\* the levels of debug(), verbose(), info(), warn() and error()
MessageLevels == INFO..VERBOSE

\* line 46
alwaysEnabledClass == "TitanKernel"

\* the sources that messages name; verbose() always names 'Verbose' and the
\* logger names itself 'TitanLogger' and 'TitanLoggerService'
Sources == {"TitanKernel", "MyService", "Verbose"}

\* the classes an application enables and disables
Classes == {"MyService"}

\* offlineQueue.splice(0, 100), line 696
BatchSize == 100

\* the fields of a new TitanLoggerService, lines 27-49, after initialize()
\* found no titan.config.json; entries are numbered as they are created
NewLogger ==
    [logLevel |-> NONE, enableVerbose |-> FALSE, databaseAccess |-> FALSE,
     dbReady |-> FALSE,        \* dbReady.value
     enabledClasses |-> {},
     offlineQueue |-> <<>>,
     made |-> 0,               \* entries created by log()
     batches |-> {},           \* insertMany calls at their await, line 698
     written |-> EmptyBag,     \* entries stored in the database
     dropped |-> {},           \* entries of a batch whose insertMany failed
     owed |-> {}]              \* entries created with databaseAccess on and
                               \* the database not ready

\* a logger without the class filter
classEnabledAlways(lg, source) == TRUE

\* shouldLog, line 188
classEnabled(lg, source) ==
    source \in lg.enabledClasses \/ source = alwaysEnabledClass

\* shouldLog, lines 179-192
shouldLog(lg, level, source) ==
    IF lg.enableVerbose
    THEN TRUE
    ELSE /\ classEnabled(lg, source)
         /\ lg.logLevel # NONE
         /\ level <= lg.logLevel

\* databaseOutput, lines 352-368: LogEntry.create resolves, or rejects and
\* the catch only warns
databaseOutput(lg, e, ok) ==
    IF ok THEN [lg EXCEPT !.written = @ (+) SetToBag({e})] ELSE lg

\* log, lines 245-276; the entry goes to the database or to the queue
log(lg, level, source, ok) ==
    IF ~shouldLog(lg, level, source)
    THEN lg
    ELSE LET e == lg.made + 1
             l == [lg EXCEPT !.made = e]
         IN  IF l.databaseAccess /\ l.dbReady
             THEN databaseOutput(l, e, ok)
             ELSE IF l.databaseAccess
             THEN [l EXCEPT !.offlineQueue = Append(@, e),
                            !.owed = @ \cup {e}]
             ELSE l

\* the subscriber of lines 694-696: splice a batch off the queue and await
\* insertMany
spliceBatch(lg) ==
    LET n == IF Len(lg.offlineQueue) < BatchSize
             THEN Len(lg.offlineQueue)
             ELSE BatchSize
    IN  [lg EXCEPT !.batches = @ \cup {SubSeq(lg.offlineQueue, 1, n)},
                   !.offlineQueue =
                       SubSeq(lg.offlineQueue, n + 1, Len(lg.offlineQueue))]

\* dbReady.next(value) with the subscription of lines 690-693: the filter
\* lets a true value through when the queue is not empty
dbReadyNext(lg, value) ==
    LET l == [lg EXCEPT !.dbReady = value]
    IN  IF value /\ Len(l.offlineQueue) > 0 THEN spliceBatch(l) ELSE l

\* lines 136-139, 603-606 and 614-617: the upgrade and its message
upgrade(lg, ok) ==
    log([lg EXCEPT !.logLevel = INFO], INFO, "TitanLogger", ok)

\* line 603, `this.dbReady': the BehaviorSubject itself, an object, which is
\* truthy whatever value it holds
dbReadySubject(lg) == TRUE

\* configure, lines 583-607
configure(lg, access, ok) ==
    LET l == [lg EXCEPT !.databaseAccess = access]
    IN  IF l.databaseAccess /\ dbReadySubject(l) /\ l.logLevel = NONE
        THEN upgrade(l, ok)
        ELSE l

\* setDatabaseReady, lines 609-622
setDatabaseReady(lg, ready, ok) ==
    LET l == dbReadyNext(lg, ready)
    IN  IF ready /\ l.logLevel = NONE /\ l.databaseAccess
        THEN upgrade(l, ok)
        ELSE l

\* checkConnection, lines 123-141; readyState is LogEntry.db.readyState = 1
checkConnection(lg, readyState, ok) ==
    LET wasReady == lg.dbReady
        isConnected == lg.databaseAccess /\ readyState
        l == dbReadyNext(lg, isConnected)
    IN  IF isConnected /\ ~wasReady
        THEN IF l.databaseAccess /\ l.logLevel = NONE
             THEN upgrade(l, ok)
             ELSE l
        ELSE l

----------------------------------------------------------------------------
(* example.ts, SocketService *)

\* the fields of a new SocketService, lines 157-158; registration functions
\* are numbered as they are passed to registerEvents
NewSocket ==
    [io |-> FALSE,
     pendingEventRegistrations |-> <<>>,
     made |-> 0,              \* registerEvents calls
     invoked |-> <<>>,        \* the functions called, in the order of call
     flushed |-> 0]           \* functions the last setServer found queued

\* a setServer that calls the queued functions and keeps them queued
processPendingKeep(s) ==
    [s EXCEPT !.invoked = @ \o s.pendingEventRegistrations,
              !.flushed = Len(s.pendingEventRegistrations)]

\* setServer, lines 169-171: forEach(registerFn => registerFn(io)), then
\* the queue is replaced by an empty one
processPending(s) ==
    [s EXCEPT !.invoked = @ \o s.pendingEventRegistrations,
              !.flushed = Len(s.pendingEventRegistrations),
              !.pendingEventRegistrations = <<>>]

\* setServer, lines 162-176
setServer(s) ==
    LET t == [s EXCEPT !.io = TRUE, !.flushed = 0]
    IN  IF Len(t.pendingEventRegistrations) > 0 THEN processPending(t) ELSE t

\* registerEvents, lines 184-191
registerEvents(s, registerFn) ==
    IF s.io
    THEN [s EXCEPT !.invoked = Append(@, registerFn)]
    ELSE [s EXCEPT !.pendingEventRegistrations = Append(@, registerFn)]

----------------------------------------------------------------------------
\* lazy-proxy.ts, constructor: a fresh proxy with _factory set
NewProxy(tok) == [factory |-> tok, inst |-> NoObj, calls |-> 0, oks |-> 0]

----------------------------------------------------------------------------
Init ==
    /\ prog \in Programs
    /\ metadata = Empty
    /\ services = Empty
    /\ instances = Empty
    /\ objs = << >>
    /\ handles = Empty
    /\ stack = << >>
    /\ ctl = Idle
    /\ cur = NoOp
    /\ last = NoLast
    /\ returned = [c \in AllClasses |-> {}]
    /\ ctorCount = [c \in AllClasses |-> 0]
    /\ lastReg = NoReg
    /\ boot = BootOff
    /\ db = NewDatabase
    /\ logger = NewLogger
    /\ socket = NewSocket

\* container.register(target, type, options), lines 11-15
Register(c, d) ==
    /\ ctl.op = "idle"
    /\ LET reg == Registered(Registry, c, d.type, d.options) IN
       /\ metadata' = reg.metadata
       /\ services' = reg.services
       /\ lastReg' = [op |-> "register", target |-> c, type |-> d.type,
                      options |-> d.options, outcome |-> "ok",
                      prev |-> Restrict(metadata, {c}),
                      inst0 |-> Restrict(instances, {c})]
    /\ UNCHANGED <<prog, db, logger, socket, boot, instances, objs, handles, stack, ctl, cur, last,
                   returned, ctorCount>>

\* @Module(metadata) is applied to the module class m, lines 4-35
Module(m) ==
    /\ ctl.op = "idle"
    /\ LET reg == Composed(Registry, m) IN
       /\ metadata' = reg.metadata
       /\ services' = reg.services
       /\ lastReg' = [op |-> "module", target |-> m, type |-> "module",
                      options |-> m, outcome |-> "ok",
                      prev |-> Restrict(metadata, Listed(m) \cup {m}),
                      inst0 |-> Restrict(instances, Listed(m) \cup {m})]
    /\ UNCHANGED <<prog, db, logger, socket, boot, instances, objs, handles, stack, ctl, cur, last,
                   returned, ctorCount>>

\* the application calls container.resolve(target)
Resolve(c) ==
    /\ ctl.op = "idle"
    /\ ctl' = Call(c)
    /\ cur' = [NoOp EXCEPT !.op = "resolve", !.target = c,
                           !.regs = DOMAIN metadata, !.inst0 = instances]
    /\ UNCHANGED <<prog, db, logger, socket, lastReg, boot, metadata, services, instances, objs, handles, stack,
                   last, returned, ctorCount>>

\* resolve, lines 17-27: entry of one activation
ResolveEnter ==
    /\ ctl.op = "call"
    /\ LET t == ctl.target IN
       /\ cur' = [cur EXCEPT !.calls = @ \cup {t}]
       /\ IF IsCached(t)
          THEN /\ ctl' = Ret(instances[t])
               /\ returned' = [returned EXCEPT ![t] = @ \cup {instances[t]}]
               /\ stack' = stack
          ELSE IF ~HasMetadata(t)
          THEN /\ ctl' = Throw("UnregisteredDependency")
               /\ UNCHANGED <<returned, stack>>
          ELSE IF Len(stack) >= MaxDepth
          THEN /\ ctl' = Throw("StackOverflow")
               /\ UNCHANGED <<returned, stack>>
          ELSE /\ stack' = Append(stack, [target |-> t, args |-> << >>])
               /\ ctl' = Deps
               /\ returned' = returned
    /\ UNCHANGED <<prog, db, logger, socket, lastReg, boot, metadata, services, instances, objs, handles, last,
                   ctorCount>>

\* resolveDependencies, lines 38-57: the map callback for the next parameter
ResolveDependency ==
    /\ ctl.op = "deps"
    /\ Len(Top.args) < Len(ParamTypes(Top.target))
    /\ LET plan == SlotPlan(Top.target, Len(Top.args) + 1)
           n == NewId(DOMAIN handles)
       IN  IF plan.lazy
           THEN /\ handles' = Put(handles, n, NewProxy(plan.tok))
                /\ stack' = [stack EXCEPT ![Len(stack)].args =
                                              Append(@, Lazy(n))]
                /\ ctl' = ctl
           ELSE /\ ctl' = Call(plan.tok.cls)
                /\ UNCHANGED <<handles, stack>>
    /\ UNCHANGED <<prog, db, logger, socket, lastReg, boot, metadata, services, instances, objs, cur, last,
                   returned, ctorCount>>

\* resolve, lines 28-31: new target(...dependencies), cache, return
Construct ==
    /\ ctl.op = "deps"
    /\ Len(Top.args) = Len(ParamTypes(Top.target))
    /\ LET o == Len(objs) + 1
           t == Top.target
       IN  /\ objs' = Append(objs, [cls |-> t, args |-> Top.args])
           /\ instances' = CacheInstance(t, o)
           /\ ctorCount' = [ctorCount EXCEPT ![t] = @ + 1]
           /\ returned' = [returned EXCEPT ![t] = @ \cup {o}]
           /\ ctl' = Ret(o)
    /\ stack' = Pop
    /\ UNCHANGED <<prog, db, logger, socket, lastReg, boot, metadata, services, handles, cur, last>>

\* resolveDependencies, lines 45 and 56: the nested resolve returned
ReturnToFrame ==
    /\ ctl.op = "ret"
    /\ stack # << >>
    /\ stack' = [stack EXCEPT ![Len(stack)].args = Append(@, Inst(ctl.val))]
    /\ ctl' = Deps
    /\ UNCHANGED <<prog, db, logger, socket, lastReg, boot, metadata, services, instances, objs, handles, cur,
                   last, returned, ctorCount>>

\* an exception leaves one activation of resolve; the proxies built for its
\* earlier parameters become unreachable
Unwind ==
    /\ ctl.op = "throw"
    /\ stack # << >>
    /\ handles' = Drop(handles, { Top.args[i].id : i \in
                          { j \in 1..Len(Top.args) : Top.args[j].k = "lazy" } })
    /\ stack' = Pop
    /\ UNCHANGED <<prog, db, logger, socket, lastReg, boot, metadata, services, instances, objs, ctl, cur, last,
                   returned, ctorCount>>

\* container.resolve returns to the application
ResolveDone ==
    /\ ctl.op = "ret"
    /\ stack = << >>
    /\ cur.op = "resolve"
    /\ last' = Finish(cur, "ok", ctl.val, instances)
    /\ ctl' = Idle
    /\ cur' = NoOp
    /\ UNCHANGED <<prog, db, logger, socket, lastReg, boot, metadata, services, instances, objs, handles, stack,
                   returned, ctorCount>>

\* the exception reaches the application (from resolve or from a proxy trap)
Raise ==
    /\ ctl.op = "throw"
    /\ stack = << >>
    /\ cur.op # "bootstrap"
    /\ last' = Finish(cur, ctl.err, NoObj, instances)
    /\ ctl' = Idle
    /\ cur' = NoOp
    /\ UNCHANGED <<prog, db, logger, socket, lastReg, boot, metadata, services, instances, objs, handles, stack,
                   returned, ctorCount>>

----------------------------------------------------------------------------
(* lazy-proxy.ts *)

\* the proxies the application can reach: those held by a constructed object
Reachable ==
    { objs[i].args[j].id : <<i, j>> \in
        { p \in (1..Len(objs)) \X (1..2) :
            /\ p[2] <= Len(objs[p[1]].args)
            /\ objs[p[1]].args[p[2]].k = "lazy" } }

TouchKinds == {"get", "set", "_getInstance"}

\* the test on _instance inverted
NeedsFactoryInverted(h) == handles[h].inst # NoObj

\* get / set trap, _getInstance: `if (!target._instance)'
NeedsFactory(h) == handles[h].inst = NoObj

\* a proxy that does not keep what its factory returned
MaterializedNotKept(p, o) == [p EXCEPT !.oks = @ + 1]

\* target._instance = target._factory()
Materialized(p, o) == [p EXCEPT !.inst = o, !.oks = @ + 1]

\* a read, write or call through a proxy that is not materialized:
\* target._factory() is invoked (lines 13-15, 22-24, 33-35)
TouchMaterialize(h, kind) ==
    /\ ctl.op = "idle"
    /\ h \in Reachable
    /\ NeedsFactory(h)
    /\ handles[h].calls < MaxFactoryCalls
    /\ handles' = [handles EXCEPT ![h].calls = @ + 1]
    /\ cur' = [NoOp EXCEPT !.op = "touch", !.h = h, !.kind = kind,
                           !.target = handles[h].factory.cls,
                           !.regs = DOMAIN metadata, !.inst0 = instances,
                           !.invoked = TRUE,
                           !.thunks = IF isForwardRef(handles[h].factory)
                                      THEN {handles[h].factory.cls} ELSE {}]
    /\ ctl' = Call(handles[h].factory.cls)
    /\ UNCHANGED <<prog, db, logger, socket, lastReg, boot, metadata, services, instances, objs, stack, last,
                   returned, ctorCount>>

\* the factory returned: target._instance = target._factory(), then the
\* operation is forwarded to the instance
FactoryDone ==
    /\ ctl.op = "ret"
    /\ stack = << >>
    /\ cur.op = "touch"
    /\ handles' = [handles EXCEPT ![cur.h] = Materialized(@, ctl.val)]
    /\ last' = Finish(cur, "ok", ctl.val, instances)
    /\ ctl' = Idle
    /\ cur' = NoOp
    /\ UNCHANGED <<prog, db, logger, socket, lastReg, boot, metadata, services, instances, objs, stack,
                   returned, ctorCount>>

\* a read, write or call through a materialized proxy: forwarded to
\* target._instance without calling the factory
TouchForward(h, kind) ==
    /\ ctl.op = "idle"
    /\ h \in Reachable
    /\ ~NeedsFactory(h)
    /\ last' = Finish([NoOp EXCEPT !.op = "touch", !.h = h, !.kind = kind,
                                   !.target = handles[h].factory.cls,
                                   !.regs = DOMAIN metadata,
                                   !.inst0 = instances,
                                   !.mat0 = handles[h].inst],
                      "ok", handles[h].inst, instances)
    /\ UNCHANGED <<prog, db, logger, socket, lastReg, boot, metadata, services, instances, objs, handles, stack,
                   ctl, cur, returned, ctorCount>>

----------------------------------------------------------------------------
(* kernel/titan-kernel.ts: TitanKernel.bootstrap.  The services the kernel *)
(* keeps for itself (ConfigService, TitanLoggerService, SocketService)     *)
(* have no constructor parameters and are left out.  The application       *)
(* awaits bootstrap() at its start, before it resolved anything, and does  *)
(* nothing else until the promise settles; the services here have no       *)
(* onInit hook.  `cur' carries the context under construction, `last' the  *)
(* context returned.                                                       *)

\* lines 32-106: services = container.getAllServices() (line 71), the
\* context with an empty services map, getInjectableClasses() (line 107)
Bootstrap ==
    /\ ctl.op = "idle"
    /\ prog \in Bootstrapped
    /\ instances = Empty
    /\ boot' = [phase |-> "populate", services |-> getAllServices,
                todo |-> ClassesOfType("injectable")]
    /\ ctl' = InBoot
    /\ cur' = [NoOp EXCEPT !.op = "bootstrap", !.regs = DOMAIN metadata,
                           !.inst0 = instances,
                           !.injectables = ClassesOfType("injectable")]
    /\ UNCHANGED <<prog, db, logger, socket, lastReg, metadata, services, instances, objs, handles,
                   stack, last, returned, ctorCount>>

\* lines 108 and 115: container.resolve(service) for the next service
BootResolve ==
    /\ ctl.op = "boot"
    /\ \E s \in boot.todo :
          /\ boot' = [boot EXCEPT !.todo = @ \ {s}]
          /\ ctl' = Call(s)
          /\ cur' = [cur EXCEPT !.target = s]
    /\ UNCHANGED <<prog, db, logger, socket, lastReg, metadata, services, instances, objs, handles,
                   stack, last, returned, ctorCount>>

\* lines 109 and 116: resolve returned; the first loop records the instance
\* under service.name
BootResolved ==
    /\ ctl.op = "ret"
    /\ stack = << >>
    /\ cur.op = "bootstrap"
    /\ cur' = IF boot.phase = "populate"
              THEN [cur EXCEPT !.ctx = Put(@, ClassName(cur.target), ctl.val)]
              ELSE cur
    /\ ctl' = InBoot
    /\ UNCHANGED <<prog, db, logger, socket, lastReg, boot, metadata, services, instances, objs,
                   handles, stack, last, returned, ctorCount>>

\* lines 112-114: the first loop is over; the loop over `services' begins
BootOnInit ==
    /\ ctl.op = "boot"
    /\ boot.todo = {}
    /\ boot.phase = "populate"
    /\ boot' = [boot EXCEPT !.phase = "oninit", !.todo = boot.services]
    /\ UNCHANGED <<prog, db, logger, socket, lastReg, metadata, services, instances, objs, handles,
                   stack, ctl, cur, last, returned, ctorCount>>

\* lines 126-133: bootstrap returns the context
BootstrapDone ==
    /\ ctl.op = "boot"
    /\ boot.todo = {}
    /\ boot.phase = "oninit"
    /\ last' = Finish(cur, "ok", NoObj, instances)
    /\ boot' = BootOff
    /\ ctl' = Idle
    /\ cur' = NoOp
    /\ UNCHANGED <<prog, db, logger, socket, lastReg, metadata, services, instances, objs, handles,
                   stack, returned, ctorCount>>

\* an exception of container.resolve leaves bootstrap: the promise rejects
BootRaise ==
    /\ ctl.op = "throw"
    /\ stack = << >>
    /\ cur.op = "bootstrap"
    /\ last' = Finish(cur, ctl.err, NoObj, instances)
    /\ boot' = BootOff
    /\ ctl' = Idle
    /\ cur' = NoOp
    /\ UNCHANGED <<prog, db, logger, socket, lastReg, metadata, services, instances, objs, handles,
                   stack, returned, ctorCount>>

----------------------------------------------------------------------------
(* services/database.service.ts: the methods and the events *)

DbIdle == ctl.op = "idle" /\ prog = {"DatabaseService"}

\* connect(config, retryAttempts), lines 33-44: up to the first attempt
Connect(n) ==
    /\ DbIdle
    /\ db.call.phase = "idle"
    /\ ~db.closing
    /\ db' = IF db.isConnected
             THEN [db EXCEPT !.lastConnect =
                      Ended("connected already", 0, 0, db.isConnected)]
             ELSE IF n <= 0
             THEN [db EXCEPT !.currentConfig = TRUE, !.manual = FALSE,
                             !.auto = FALSE, !.lost = FALSE,
                             !.lastConnect =
                                 Ended("returned", 0, n, FALSE)]
             ELSE [db EXCEPT !.currentConfig = TRUE, !.manual = FALSE,
                             !.auto = FALSE, !.lost = FALSE,
                             !.call = [phase |-> "trying", attempt |-> 0,
                                       max |-> n]]
    /\ UNCHANGED <<prog, logger, socket, kernelVars>>

\* connect, lines 66-96: mongoose.connect resolved
ConnectSucceed ==
    /\ DbIdle
    /\ db.call.phase = "trying"
    /\ LET d == [db EXCEPT !.connection = TRUE, !.isConnected = TRUE,
                           !.link = "up", !.lost = FALSE,
                           !.listening =
                               IF db.call.attempt = 0 \/ ~db.listening
                               THEN TRUE
                               ELSE db.listening,
                           !.call = NoCall]
       IN  db' = [d EXCEPT !.lastConnect =
                      Ended("ok", db.call.attempt + 1, db.call.max,
                            d.isConnected)]
    /\ UNCHANGED <<prog, logger, socket, kernelVars>>

\* connect, lines 98-117: mongoose.connect rejected
ConnectFail ==
    /\ DbIdle
    /\ db.call.phase = "trying"
    /\ db.link # "up"
    /\ LET c == [db.call EXCEPT !.attempt = @ + 1] IN
       db' = IF Exhausted(c.attempt, c.max)
             THEN [db EXCEPT !.isConnected = FALSE, !.call = NoCall,
                             !.lastConnect =
                                 Ended("threw", c.attempt, c.max, FALSE)]
             ELSE [db EXCEPT !.call = [c EXCEPT !.phase = "backoff"]]
    /\ UNCHANGED <<prog, logger, socket, kernelVars>>

\* connect, line 116: the backoff timer fired, the loop goes on
ConnectRetry ==
    /\ DbIdle
    /\ db.call.phase = "backoff"
    /\ db' = [db EXCEPT !.call.phase = "trying"]
    /\ UNCHANGED <<prog, logger, socket, kernelVars>>

\* disconnect(), lines 122-131: up to the await
Disconnect ==
    /\ DbIdle
    /\ db.call.phase = "idle"
    /\ ~db.closing
    /\ LET d == [db EXCEPT !.reconnectionTimeout = "none",
                           !.isReconnecting = FALSE, !.lost = FALSE]
       IN  db' = IF d.isConnected /\ d.connection
                 THEN [d EXCEPT !.closing = TRUE]
                 ELSE [d EXCEPT !.manual = TRUE]
    /\ UNCHANGED <<prog, logger, socket, kernelVars>>

\* disconnect(), lines 132-135: mongoose.disconnect() resolved
DisconnectDone ==
    /\ DbIdle
    /\ db.closing
    /\ db' = [Closed(db) EXCEPT !.isConnected = FALSE, !.closing = FALSE,
                                !.manual = TRUE, !.lost = FALSE]
    /\ UNCHANGED <<prog, logger, socket, kernelVars>>

\* the connection to the server is lost: mongoose emits 'disconnected'
ConnectionLost ==
    /\ DbIdle
    /\ db.link = "up"
    /\ db' = OnDisconnected([db EXCEPT !.link = "dropped"])
    /\ UNCHANGED <<prog, logger, socket, kernelVars>>

\* mongoose emits 'error' on the connection
ErrorEvent ==
    /\ DbIdle
    /\ db.link = "up"
    /\ db.listening
    /\ db' = OnDisconnected(db)
    /\ UNCHANGED <<prog, logger, socket, kernelVars>>

\* the driver regains a lost connection: mongoose emits 'reconnected'
Reconnected ==
    /\ DbIdle
    /\ db.link = "dropped"
    /\ db' = OnReconnected([db EXCEPT !.link = "up"])
    /\ UNCHANGED <<prog, logger, socket, kernelVars>>

\* the timer of scheduleReconnection fires, lines 271-273
TimerFire ==
    /\ DbIdle
    /\ db.reconnectionTimeout = "pending"
    /\ db' = attemptReconnection([db EXCEPT !.reconnectionTimeout = "fired"],
                                 1)
    /\ UNCHANGED <<prog, logger, socket, kernelVars>>

\* a timer of line 322 fires
RetryFire(k) ==
    /\ DbIdle
    /\ k \in db.retries
    /\ db' = attemptReconnection([db EXCEPT !.retries = @ \ {k}], k)
    /\ UNCHANGED <<prog, logger, socket, kernelVars>>

\* attemptReconnection, lines 299-306: disconnect and connect resolved
AttemptSucceed(k) ==
    /\ DbIdle
    /\ k \in db.inflight
    /\ db' = [Closed(db) EXCEPT !.inflight = @ \ {k}, !.link = "up",
                                !.connection = TRUE, !.isConnected = TRUE,
                                !.isReconnecting = FALSE, !.lost = FALSE]
    /\ UNCHANGED <<prog, logger, socket, kernelVars>>

\* attemptReconnection, lines 308-326: disconnect or connect rejected
AttemptFail(k) ==
    /\ DbIdle
    /\ k \in db.inflight
    /\ db' = AfterFailure([Closed(db) EXCEPT !.inflight = @ \ {k},
                                             !.isReconnecting = FALSE], k)
    /\ UNCHANGED <<prog, logger, socket, kernelVars>>

ConnectAny == \E n \in 0..MaxRetries : Connect(n)
RetryFireAny == \E k \in 2..MaxAttempts : RetryFire(k)
AttemptSucceedAny == \E k \in 1..MaxAttempts : AttemptSucceed(k)
AttemptFailAny == \E k \in 1..MaxAttempts : AttemptFail(k)

\* an attempt at its await settles
AttemptDone == AttemptSucceedAny \/ AttemptFailAny

----------------------------------------------------------------------------
(* services/titan-logger.service.ts: the methods and the events.  The *)
(* queue of LogConfig updates (operationQueue) is left out: it holds no  *)
(* log entry and no method reads it to decide what to log.               *)

LoggerIdle == ctl.op = "idle" /\ prog = {"TitanLoggerService"}

\* entries are created up to MaxEntries
Counted(lg) == lg.made <= MaxEntries

\* debug(), verbose(), info(), warn() and error(), lines 209-228
Log(level, source, ok) ==
    /\ LoggerIdle
    /\ Counted(log(logger, level, source, ok))
    /\ logger' = log(logger, level, source, ok)
    /\ UNCHANGED <<prog, db, socket, kernelVars>>

\* setLogLevel, lines 168-170
SetLogLevel(level) ==
    /\ LoggerIdle
    /\ logger' = [logger EXCEPT !.logLevel = level]
    /\ UNCHANGED <<prog, db, socket, kernelVars>>

\* logger.enableVerbose = value, kernel/titan-kernel.ts lines 58-59
SetVerbose(value) ==
    /\ LoggerIdle
    /\ logger' = [logger EXCEPT !.enableVerbose = value]
    /\ UNCHANGED <<prog, db, socket, kernelVars>>

\* enableLoggingForClass, lines 719-722
EnableLoggingForClass(c, ok) ==
    /\ LoggerIdle
    /\ LET l == log([logger EXCEPT !.enabledClasses = @ \cup {c}],
                    INFO, "TitanLoggerService", ok)
       IN  Counted(l) /\ logger' = l
    /\ UNCHANGED <<prog, db, socket, kernelVars>>

\* disableLoggingForClass, lines 731-733
DisableLoggingForClass(c, ok) ==
    /\ LoggerIdle
    /\ LET l == log([logger EXCEPT !.enabledClasses = @ \ {c}],
                    INFO, "TitanLoggerService", ok)
       IN  Counted(l) /\ logger' = l
    /\ UNCHANGED <<prog, db, socket, kernelVars>>

\* configure({databaseAccess: access})
Configure(access, ok) ==
    /\ LoggerIdle
    /\ Counted(configure(logger, access, ok))
    /\ logger' = configure(logger, access, ok)
    /\ UNCHANGED <<prog, db, socket, kernelVars>>

\* setDatabaseReady(ready)
SetDatabaseReady(ready, ok) ==
    /\ LoggerIdle
    /\ Counted(setDatabaseReady(logger, ready, ok))
    /\ logger' = setDatabaseReady(logger, ready, ok)
    /\ UNCHANGED <<prog, db, socket, kernelVars>>

\* the 30 s interval of line 151 runs checkConnection
CheckConnection(readyState, ok) ==
    /\ LoggerIdle
    /\ Counted(checkConnection(logger, readyState, ok))
    /\ logger' = checkConnection(logger, readyState, ok)
    /\ UNCHANGED <<prog, db, socket, kernelVars>>

\* LogEntry.db emits 'connected', lines 145-148
DbConnected ==
    /\ LoggerIdle
    /\ logger' = dbReadyNext(logger, TRUE)
    /\ UNCHANGED <<prog, db, socket, kernelVars>>

\* LogEntry.db emits 'disconnected', line 149
DbDisconnected ==
    /\ LoggerIdle
    /\ logger' = dbReadyNext(logger, FALSE)
    /\ UNCHANGED <<prog, db, socket, kernelVars>>

\* lines 697-702: insertMany settled; the loop goes on while the queue is
\* not empty
BatchDone(b, ok) ==
    /\ LoggerIdle
    /\ b \in logger.batches
    /\ LET l == IF ok
                THEN [logger EXCEPT !.batches = @ \ {b},
                                    !.written = @ (+) SetToBag(Range(b))]
                ELSE [logger EXCEPT !.batches = @ \ {b},
                                    !.dropped = @ \cup Range(b)]
       IN  logger' = IF Len(l.offlineQueue) > 0 THEN spliceBatch(l) ELSE l
    /\ UNCHANGED <<prog, db, socket, kernelVars>>

LogAny ==
    \E level \in MessageLevels : \E source \in Sources : \E ok \in BOOLEAN :
        Log(level, source, ok)
SetLogLevelAny == \E level \in LogLevels : SetLogLevel(level)
SetVerboseAny == \E value \in BOOLEAN : SetVerbose(value)
EnableLoggingForClassAny ==
    \E c \in Classes : \E ok \in BOOLEAN : EnableLoggingForClass(c, ok)
DisableLoggingForClassAny ==
    \E c \in Classes : \E ok \in BOOLEAN : DisableLoggingForClass(c, ok)
ConfigureAny == \E access \in BOOLEAN : \E ok \in BOOLEAN : Configure(access, ok)
SetDatabaseReadyAny ==
    \E ready \in BOOLEAN : \E ok \in BOOLEAN : SetDatabaseReady(ready, ok)
CheckConnectionAny ==
    \E readyState \in BOOLEAN : \E ok \in BOOLEAN :
        CheckConnection(readyState, ok)
BatchDoneAny ==
    \E b \in logger.batches : \E ok \in BOOLEAN : BatchDone(b, ok)

----------------------------------------------------------------------------
(* example.ts, SocketService: the methods.  A registration function is   *)
(* taken to return normally; the messages go to the logger of the        *)
(* service.                                                              *)

SocketIdle == ctl.op = "idle" /\ prog = {"SocketService"}

\* setServer(io), lines 162-176
SetServer ==
    /\ SocketIdle
    /\ socket' = setServer(socket)
    /\ logger' = LET l == log(logger, INFO, "SocketService", TRUE)
                 IN  IF Len(socket.pendingEventRegistrations) > 0
                     THEN log(log(l, DEBUG, "SocketService", TRUE),
                              DEBUG, "SocketService", TRUE)
                     ELSE l
    /\ UNCHANGED <<prog, db, kernelVars>>

\* registerEvents(registerFn), lines 184-191
RegisterEvents ==
    /\ SocketIdle
    /\ socket.made < MaxRegistrations
    /\ socket' = registerEvents([socket EXCEPT !.made = @ + 1],
                                socket.made + 1)
    /\ logger' = IF socket.io
                 THEN logger
                 ELSE log(logger, DEBUG, "SocketService", TRUE)
    /\ UNCHANGED <<prog, db, kernelVars>>

----------------------------------------------------------------------------
RegisterAny == \E c \in prog : \E d \in Decls(c) : Register(c, d)
ModuleAny == \E m \in prog \cap ModuleClasses : Module(m)
ResolveAny == \E c \in prog \ BuiltServices : Resolve(c)
TouchMaterializeAny ==
    \E h \in DOMAIN handles : \E k \in TouchKinds : TouchMaterialize(h, k)
TouchForwardAny ==
    \E h \in DOMAIN handles : \E k \in TouchKinds : TouchForward(h, k)

\* the steps of a call in progress
Run ==
    \/ ResolveEnter
    \/ ResolveDependency
    \/ Construct
    \/ ReturnToFrame
    \/ Unwind
    \/ ResolveDone
    \/ Raise
    \/ FactoryDone
    \/ BootResolve
    \/ BootResolved
    \/ BootOnInit
    \/ BootstrapDone
    \/ BootRaise

Next ==
    \/ RegisterAny
    \/ ModuleAny
    \/ ResolveAny
    \/ TouchMaterializeAny
    \/ TouchForwardAny
    \/ ResolveEnter
    \/ ResolveDependency
    \/ Construct
    \/ ReturnToFrame
    \/ Unwind
    \/ ResolveDone
    \/ Raise
    \/ FactoryDone
    \/ Bootstrap
    \/ BootResolve
    \/ BootResolved
    \/ BootOnInit
    \/ BootstrapDone
    \/ BootRaise
    \/ ConnectAny
    \/ ConnectSucceed
    \/ ConnectFail
    \/ ConnectRetry
    \/ Disconnect
    \/ DisconnectDone
    \/ ConnectionLost
    \/ ErrorEvent
    \/ Reconnected
    \/ TimerFire
    \/ RetryFireAny
    \/ AttemptSucceedAny
    \/ AttemptFailAny
    \/ LogAny
    \/ SetLogLevelAny
    \/ SetVerboseAny
    \/ EnableLoggingForClassAny
    \/ DisableLoggingForClassAny
    \/ ConfigureAny
    \/ SetDatabaseReadyAny
    \/ CheckConnectionAny
    \/ DbConnected
    \/ DbDisconnected
    \/ BatchDoneAny
    \/ SetServer
    \/ RegisterEvents

Spec == Init /\ [][Next]_vars

\* a JavaScript call runs to completion: a call in progress always advances
FairSpec == Spec /\ WF_vars(Run)

\* timers fire, an awaited attempt settles, and the database accepts a
\* connection if it is asked again and again
FairDb ==
    /\ Spec
    /\ WF_vars(TimerFire)
    /\ WF_vars(RetryFireAny)
    /\ WF_vars(AttemptDone)
    /\ SF_vars(AttemptSucceedAny)

----------------------------------------------------------------------------
(* Properties *)

Finished(op) == last.op = op /\ ctl.op = "idle"

\* the proxy held in the single constructor slot of object o (0 if none)
SlotOf(o) == objs[o].args[1]

\* C1: every successful resolve(X) returns the same instance: all objects
\* ever returned for X are the one object cached for X
C1_SameInstance ==
    /\ \A c \in AllClasses :
          returned[c] # {} => /\ c \in DOMAIN instances
                              /\ returned[c] = {instances[c]}
    /\ (last.op = "resolve" /\ last.outcome = "ok")
          => last.val \in returned[last.target]

\* a resolve of an identity that was already cached has returned, after a
\* lazy proxy had been materialized
C1_Witness ==
    /\ last.op = "resolve" /\ last.outcome = "ok"
    /\ last.target \in last.cached0
    /\ \E h \in DOMAIN handles : handles[h].inst # NoObj

\* C2: a resolve of an identity without Registration fails with
\* UnregisteredDependency, returns nothing and leaves the cache as it was
C2_UnregisteredFails ==
    /\ (last.op \in {"resolve", "touch"} /\ last.calls \ last.regs # {})
          => (last.outcome = "UnregisteredDependency" /\ last.val = NoObj)
    /\ (last.op = "resolve" /\ last.target \notin last.regs)
          => (~last.grew /\ last.target \notin last.cached0)

\* an unregistered identity was resolved while other identities were
\* registered and cached
C2_Witness ==
    /\ last.op = "resolve"
    /\ last.target \notin last.regs
    /\ last.cached0 # {}
    /\ last.outcome = "UnregisteredDependency"

TwoParty == {"ServiceA", "ServiceB"}

\* C3: with ServiceA and ServiceB registered, resolve of either returns an
\* instance, and the recursion never goes deeper than one activation
C3_TwoPartyTerminates ==
    /\ [](prog = TwoParty => Len(stack) <= 1)
    /\ \A c \in TwoParty :
          (cur.op = "resolve" /\ cur.target = c /\ TwoParty \subseteq cur.regs)
             ~> (Finished("resolve") /\ last.target = c
                    /\ last.outcome = "ok" /\ last.val # NoObj)

\* resolve(ServiceA) built ServiceA while both classes were registered
C3_Witness ==
    /\ Finished("resolve") /\ last.target = "ServiceA"
    /\ last.outcome = "ok"
    /\ TwoParty \subseteq last.regs
    /\ "ServiceA" \notin last.cached0

\* C4 as stated: once a.dep is touched it is the ServiceB singleton b, and
\* b.dep is the object a itself
C4_Original ==
    ( /\ "ServiceA" \in DOMAIN instances
      /\ handles[SlotOf(instances["ServiceA"]).id].inst # NoObj )
    => LET a == instances["ServiceA"]
           b == handles[SlotOf(a).id].inst
       IN  /\ "ServiceB" \in DOMAIN instances
           /\ b = instances["ServiceB"]
           /\ SlotOf(b) = Inst(a)

Other(c) == IF c = "ServiceA" THEN "ServiceB" ELSE "ServiceA"

\* C4 (amended): in the two-party cycle the slot of each instance is a lazy
\* proxy over the other class; once touched, a.dep materializes to the
\* ServiceB singleton b, and b.dep is again a proxy, which materializes to a
C4_Amended ==
    \A o \in 1..Len(objs) :
        objs[o].cls \in TwoParty =>
            LET slot == SlotOf(o) IN
            /\ instances[objs[o].cls] = o
            /\ slot.k = "lazy"
            /\ handles[slot.id].factory = Cls(Other(objs[o].cls))
            /\ handles[slot.id].inst # NoObj =>
                  LET p == handles[slot.id].inst IN
                  /\ Other(objs[o].cls) \in DOMAIN instances
                  /\ p = instances[Other(objs[o].cls)]
                  /\ objs[p].cls = Other(objs[o].cls)
                  /\ SlotOf(p).k = "lazy"
                  /\ handles[SlotOf(p).id].inst \in {NoObj, o}

\* a.dep was touched and gave b, b.dep was touched and gave a
C4_Witness ==
    /\ TwoParty \subseteq DOMAIN instances
    /\ LET a == instances["ServiceA"]
           b == instances["ServiceB"]
       IN  /\ handles[SlotOf(a).id].inst = b
           /\ handles[SlotOf(b).id].inst = a

\* C5: the constructor of an identity runs at most once
C5_ConstructedOnce == \A c \in AllClasses : ctorCount[c] <= 1

\* an identity was constructed inside the factory of a proxy and resolved
\* again afterwards
C5_Witness ==
    /\ last.op = "resolve" /\ last.outcome = "ok"
    /\ last.target \in last.cached0
    /\ ctorCount[last.target] = 1
    /\ \E h \in DOMAIN handles :
          /\ handles[h].factory.cls = last.target
          /\ handles[h].inst # NoObj

\* C6: resolving ServiceC while ServiceD is not registered succeeds without
\* invoking the thunk or resolving ServiceD; the slot is an unmaterialized
\* proxy
C6_ForwardRefDeferred ==
    ( /\ last.op = "resolve" /\ last.target = "ServiceC"
      /\ "ServiceC" \in last.regs /\ "ServiceD" \notin last.regs )
    => /\ last.outcome = "ok"
       /\ last.val # NoObj
       /\ "ServiceD" \notin last.calls
       /\ last.thunks = {}
       /\ objs[last.val].cls = "ServiceC"
       /\ SlotOf(last.val).k = "lazy"
       /\ handles[SlotOf(last.val).id].factory = Fwd("ServiceD")
       /\ handles[SlotOf(last.val).id].inst = NoObj

\* ServiceC was built by a resolve while ServiceD had no Registration
C6_Witness ==
    /\ last.op = "resolve" /\ last.target = "ServiceC"
    /\ "ServiceC" \in last.regs /\ "ServiceD" \notin last.regs
    /\ "ServiceC" \notin last.cached0
    /\ last.outcome = "ok"

\* C7: a touch of the forward-reference proxy fails with
\* UnregisteredDependency while ServiceD is not registered, and gives the
\* ServiceD singleton once it is
C7_ForwardRefTouch ==
    ( /\ last.op = "touch"
      /\ handles[last.h].factory = Fwd("ServiceD") )
    => /\ "ServiceD" \notin last.regs
            => /\ last.outcome = "UnregisteredDependency"
               /\ last.val = NoObj
       /\ "ServiceD" \in last.regs
            => /\ last.outcome = "ok"
               /\ "ServiceD" \in DOMAIN instances
               /\ last.val = instances["ServiceD"]
               /\ objs[last.val].cls = "ServiceD"

\* the proxy was touched before ServiceD was registered, and the touch
\* after the registration has returned the instance
C7_Witness ==
    /\ last.op = "touch" /\ last.outcome = "ok" /\ last.invoked
    /\ handles[last.h].factory = Fwd("ServiceD")
    /\ handles[last.h].calls = 2

\* C8 as stated: the factory of a proxy is invoked at most once
C8_Original == \A h \in DOMAIN handles : handles[h].calls <= 1

\* C8 (amended): the factory of a proxy returns at most once; an operation
\* on an unmaterialized proxy invokes it, and every operation after it has
\* returned is forwarded to the same cached instance without invoking it
C8_Amended ==
    /\ \A h \in DOMAIN handles :
          /\ handles[h].oks <= 1
          /\ handles[h].inst # NoObj <=> handles[h].oks = 1
    /\ last.op = "touch" =>
          /\ last.mat0 = NoObj <=> last.invoked
          /\ ~last.invoked => /\ last.outcome = "ok"
                              /\ last.val = last.mat0
                              /\ handles[last.h].inst = last.mat0
          /\ (last.invoked /\ last.outcome = "ok")
                => handles[last.h].inst = last.val

\* an operation was forwarded to the instance of a materialized proxy
C8_Witness ==
    /\ last.op = "touch" /\ ~last.invoked
    /\ last.val # NoObj
    /\ handles[last.h].calls = 1

\* C9: a factory that throws leaves the proxy unmaterialized and the error
\* reaches the toucher; the next touch invokes the factory again; after a
\* factory call has succeeded the factory is not invoked any more
C9_FactoryRetry ==
    /\ (last.op = "touch" /\ last.outcome # "ok")
          => /\ last.invoked
             /\ last.outcome \in {"UnregisteredDependency", "StackOverflow"}
             /\ handles[last.h].inst = NoObj
             /\ handles[last.h].oks = 0
    /\ \A h \in DOMAIN handles :
          /\ handles[h].oks = 0 => handles[h].inst = NoObj
          /\ handles[h].oks <= 1
    /\ (last.op = "touch" /\ handles[last.h].calls > 1)
          => (last.invoked \/ handles[last.h].inst # NoObj)
    /\ (last.op = "touch" /\ last.mat0 # NoObj) => ~last.invoked

\* a factory threw, the retry succeeded, and a later touch was forwarded
C9_Witness ==
    /\ last.op = "touch" /\ ~last.invoked
    /\ handles[last.h].calls = 2
    /\ handles[last.h].oks = 1

\* C10: what a proxy materializes for identity D is the object resolve(D)
\* returns
C10_HandleIsSingleton ==
    \A h \in DOMAIN handles :
        handles[h].inst # NoObj =>
            LET d == handles[h].factory.cls IN
            /\ d \in DOMAIN instances
            /\ handles[h].inst = instances[d]
            /\ returned[d] = {handles[h].inst}
            /\ objs[handles[h].inst].cls = d

\* a proxy was materialized by a touch when its identity was already
\* cached by an earlier resolve; the other order is C5_Witness
C10_Witness ==
    /\ last.op = "touch" /\ last.invoked /\ last.outcome = "ok"
    /\ last.target \in last.cached0
    /\ handles[last.h].inst = last.val

ThreeParty == {"A", "B", "C"}

\* C11: in the cycle A -> B -> C -> A without forward reference no resolve
\* returns an instance: none of the three is ever constructed, and with all
\* three registered the recursion runs until the call stack is exhausted
C11_ThreePartyNeverResolves ==
    /\ \A c \in ThreeParty :
          /\ c \notin DOMAIN instances
          /\ ctorCount[c] = 0
          /\ returned[c] = {}
    /\ (last.op = "resolve" /\ last.target \in ThreeParty)
          => (last.outcome # "ok" /\ last.val = NoObj)
    /\ ( /\ last.op = "resolve" /\ last.target \in ThreeParty
         /\ ThreeParty \subseteq last.regs )
          => (last.outcome = "StackOverflow" /\ last.calls = ThreeParty)

\* resolve(A) was called with A, B and C registered and has ended
C11_Witness ==
    /\ Finished("resolve") /\ last.target = "A"
    /\ ThreeParty \subseteq last.regs
    /\ last.outcome = "StackOverflow"

FwdParty == {"FwdA", "FwdB", "FwdC"}

\* C12: in the cycle FwdA -> FwdB -> FwdC -> FwdA whose last edge is a
\* forward reference, a resolve of any of the three returns an instance once
\* all are registered, and an identity that has been resolved has exactly
\* one instance
C12_ForwardRefCycleResolves ==
    /\ [](\A c \in FwdParty :
            /\ ctorCount[c] <= 1
            /\ returned[c] # {} => /\ c \in DOMAIN instances
                                   /\ returned[c] = {instances[c]}
                                   /\ ctorCount[c] = 1)
    /\ \A c \in FwdParty :
          (cur.op = "resolve" /\ cur.target = c /\ FwdParty \subseteq cur.regs)
             ~> (Finished("resolve") /\ last.target = c
                    /\ last.outcome = "ok" /\ last.val # NoObj)

\* FwdC was resolved first; FwdA and FwdB were built later, by a touch of
\* the proxy FwdC holds, and now each of the three has one instance
C12_Witness ==
    /\ last.op = "touch" /\ last.target = "FwdA" /\ last.invoked
    /\ last.outcome = "ok"
    /\ last.cached0 = {"FwdC"}
    /\ \A c \in FwdParty : ctorCount[c] = 1 /\ c \in DOMAIN instances

\* C13: the constructor arguments of the UserService instance are the
\* Config singleton and the Logger singleton, in this order
C13_ArgsAreSingletons ==
    \A o \in 1..Len(objs) :
        objs[o].cls = "UserService" =>
            /\ {"Config", "Logger"} \subseteq DOMAIN instances
            /\ objs[o].args = << Inst(instances["Config"]),
                                 Inst(instances["Logger"]) >>
            /\ objs[instances["Config"]].cls = "Config"
            /\ objs[instances["Logger"]].cls = "Logger"
            /\ returned["Config"] = {instances["Config"]}
            /\ returned["Logger"] = {instances["Logger"]}

\* UserService was built when Config had been resolved before and Logger
\* had not, and Config was resolved again afterwards
C13_Witness ==
    /\ last.op = "resolve" /\ last.target = "Config" /\ last.outcome = "ok"
    /\ "UserService" \in last.cached0
    /\ objs[1].cls = "Config"
    /\ objs[2].cls = "Logger"
    /\ objs[3].cls = "UserService"

\* C14: registrations are keyed by identity, not by name: two distinct
\* registered identities with the same name are both in getAllServices, in
\* the list of their kind and in findAllClasses, and a successful resolve of
\* either returns an instance of that identity
C14_KeyedByIdentity ==
    \A c1 \in DOMAIN metadata : \A c2 \in DOMAIN metadata :
        (c1 # c2 /\ ClassName(c1) = ClassName(c2)) =>
            /\ {c1, c2} \subseteq getAllServices
            /\ {c1, c2} \subseteq findAllClasses
            /\ c1 \in ClassesOfType(metadata[c1].type)
            /\ (Finished("resolve") /\ last.target = c1
                    /\ last.outcome = "ok") =>
                   (last.val = instances[c1] /\ objs[last.val].cls = c1)

\* C15: register never fails and leaves exactly one Registration for the
\* identity, holding the kind and options of the last register; performing
\* the same register once more leaves the registry as it is
C15_RegisterOverwrites ==
    lastReg.op = "register" =>
        LET c == lastReg.target
            rec == [type |-> lastReg.type, target |-> c,
                    options |-> lastReg.options]
        IN  /\ lastReg.outcome = "ok"
            /\ c \in DOMAIN metadata
            /\ metadata[c] = rec
            /\ { m \in Range(metadata) : m.target = c } = {rec}
            /\ Registered(Registry, c, lastReg.type, lastReg.options)
                   = Registry

\* an identity registered with one kind was registered again with another
C15_Witness ==
    /\ lastReg.op = "register"
    /\ lastReg.target \in DOMAIN lastReg.prev
    /\ lastReg.prev[lastReg.target].type # lastReg.type
    /\ metadata[lastReg.target].type = lastReg.type

\* the kind the specification gives to the providers, request handlers and
\* realtime endpoints of a module
KindOfList == << "injectable", "controller", "gateway" >>

\* C16: after a module is declared it is registered with kind module, every
\* identity it lists has a Registration (resolve does not reject it as
\* unregistered), and a listed identity that had none before has the kind of
\* its list
C16_ModuleRegistersListed ==
    lastReg.op = "module" =>
        LET m == lastReg.target IN
        /\ m \in DOMAIN metadata
        /\ metadata[m].type = "module"
        /\ \A i \in 1..3 :
             \A x \in Range(ModuleMetadata(m)[ModuleLists[i]]) :
                /\ x \in DOMAIN metadata
                /\ x \notin DOMAIN lastReg.prev =>
                       metadata[x] = [type |-> KindOfList[i], target |-> x,
                                      options |-> "{}"]

\* a module was declared whose provider and realtime endpoint were not
\* registered before
C16_Witness ==
    /\ lastReg.op = "module"
    /\ lastReg.target = "UserModule"
    /\ lastReg.prev = Empty
    /\ metadata["AccountService"].type = "injectable"
    /\ metadata["UserGateway"].type = "gateway"

\* C17: declaring a module raises no error and leaves the Registration of
\* every listed identity that was registered before as it was
C17_ListedKeepRegistration ==
    lastReg.op = "module" =>
        /\ lastReg.outcome = "ok"
        /\ \A x \in Listed(lastReg.target) \cap DOMAIN lastReg.prev :
               metadata[x] = lastReg.prev[x]

ImportsOf(m) == Range(ModuleMetadata(m).imports)

RECURSIVE Importing(_, _)
Importing(S, n) ==
    IF n = 0
    THEN S
    ELSE Importing(S \cup UNION { ImportsOf(x) : x \in S }, n - 1)

\* the modules m imports, directly or through its imports
Imported(m) == Importing(ImportsOf(m), Cardinality(ModuleClasses))

\* C18: declaring a module that imports itself through its imports raises
\* CircularModuleImport
C18_CircularImportRejected ==
    (lastReg.op = "module" /\ lastReg.target \in Imported(lastReg.target)) =>
        lastReg.outcome = "CircularModuleImport"

\* what a module exposes to a module importing it: its exports and, through
\* its own imports, theirs
ExportClosure(m) ==
    UNION { Range(ModuleMetadata(x).exports) : x \in {m} \cup Imported(m) }

\* what a module may resolve
Visible(m) ==
    Range(ModuleMetadata(m).providers)
        \cup UNION { ExportClosure(i) : i \in ImportsOf(m) }

\* C19: a resolve for a provider of a declared module that requests an
\* identity outside what the module may resolve ends in UnregisteredDependency
C19_VisibilityEnforced ==
    \A m \in ModuleClasses \cap DOMAIN metadata :
        ( /\ Finished("resolve")
          /\ last.target \in Range(ModuleMetadata(m).providers)
          /\ last.calls \ Visible(m) # {} ) =>
            last.outcome = "UnregisteredDependency"

\* C20: when bootstrap has returned, every identity that was registered when
\* it began has an instance in the cache, and context.services holds for
\* every injectable S, under the name of S, the instance cached for S
C20_BootstrapResolvesAll ==
    (Finished("bootstrap") /\ last.outcome = "ok") =>
        /\ \A c \in last.regs : c \in DOMAIN instances
        /\ \A S \in last.injectables :
              /\ ClassName(S) \in DOMAIN last.ctx
              /\ S \in DOMAIN instances
              /\ last.ctx[ClassName(S)] = instances[S]

\* C21: connect(config, n) makes at most n attempts: while it runs, fewer
\* than n have failed; it returns at a success, within n attempts, with the
\* service connected; it throws after exactly n failures, with the service
\* not connected; called while connected it makes no attempt
C21_ConnectRetries ==
    /\ db.call.phase # "idle" => db.call.attempt < db.call.max
    /\ db.lastConnect.outcome = "ok" =>
           (db.lastConnect.within /\ db.lastConnect.connected)
    /\ db.lastConnect.outcome = "threw" =>
           (db.lastConnect.all /\ ~db.lastConnect.connected)
    /\ db.lastConnect.outcome = "connected already" =>
           db.lastConnect = Ended("connected already", 0, 0, TRUE)

\* a connect() has thrown after its last attempt failed
C21_Witness ==
    /\ db.lastConnect.outcome = "threw"
    /\ db.lastConnect.all
    /\ ~db.isConnected
    /\ db.call.phase = "idle"

\* C22: once disconnect() has completed and until connect() is called, no
\* reconnection timer is pending and no reconnection attempt is started
C22_CleanDisconnect ==
    db.manual =>
        /\ db.reconnectionTimeout # "pending"
        /\ db.retries = {}
        /\ ~db.auto

\* C23: after a 'disconnected' or 'error' event was handled, the service
\* becomes connected again (or the application calls disconnect or connect)
C23_KeepsReconnecting == db.lost ~> ~db.lost

\* an event was handled and a whole round of attempts has failed
C23_Witness ==
    /\ db.lost
    /\ ~db.isConnected
    /\ db.reconnectionTimeout = "pending"
    /\ db.inflight = {}
    /\ db.retries = {}

\* a message of this level and source is shown: log() makes an entry of it
Shown(level, source) == log(logger, level, source, TRUE).made > logger.made

C25_UpgradeOnlyWhenReady ==
    [][(ConfigureAny \/ SetDatabaseReadyAny \/ CheckConnectionAny)
       /\ logger'.logLevel # logger.logLevel
       => /\ logger.logLevel = NONE
          /\ logger'.logLevel = INFO
          /\ logger'.databaseAccess
          /\ logger'.dbReady]_vars

\* C26: an entry created with databaseAccess on and the database not ready
\* is in the offline queue, in a batch being inserted, or written, never
\* dropped; and no entry is written twice
C26_QueuedWrittenOnce ==
    /\ \A e \in logger.owed :
          /\ e \notin logger.dropped
          /\ \/ e \in Range(logger.offlineQueue)
             \/ \E b \in logger.batches : e \in Range(b)
             \/ CopiesIn(e, logger.written) = 1
    /\ \A e \in 1..logger.made : CopiesIn(e, logger.written) <= 1

\* C27: before setServer every registration is queued, in order, and none
\* is invoked; after setServer the queue is empty and every registration
\* has been invoked exactly once, in registration order, the later ones at
\* their registerEvents call
C27_RegistrationQueue ==
    LET all == [i \in 1..socket.made |-> i] IN
    /\ ~socket.io =>
          /\ socket.pendingEventRegistrations = all
          /\ socket.invoked = <<>>
    /\ socket.io =>
          /\ socket.pendingEventRegistrations = <<>>
          /\ socket.invoked = all

\* setServer found two registrations queued, and one was made after it
C27_Witness ==
    /\ socket.io
    /\ socket.flushed = 2
    /\ socket.made = 3
    /\ socket.invoked = <<1, 2, 3>>

\* the token that resolveDependencies uses for a parameter: the @Inject
\* token if there is one, the inferred type otherwise
EffectiveToken(c, i) ==
    IF Decorator(c, i) # NoToken THEN Decorator(c, i) ELSE ParamTypes(c)[i]

EffectiveTokens(c) ==
    { EffectiveToken(c, i) : i \in 1..Len(ParamTypes(c)) }

\* C28: no dependency D whose effective tokens name X is resolved eagerly
\* inside resolve(X): no activation of such a D lies directly on the
\* activation of X
C28_GuardSeesOverrides ==
    \A i \in 1..(Len(stack) - 1) :
        Cls(stack[i].target) \notin EffectiveTokens(stack[i + 1].target)

OverrideParty == {"OvA", "OvB"}

\* C29: with OvA and OvB registered, each naming the other by @Inject, a
\* resolve of either returns an instance and the recursion stays within one
\* activation
C29_OverrideCycleTerminates ==
    /\ prog = OverrideParty => Len(stack) <= 1
    /\ ( /\ last.op = "resolve" /\ last.target \in OverrideParty
         /\ OverrideParty \subseteq last.regs )
          => (last.outcome = "ok" /\ last.val # NoObj)

OptionsParty == {"TransientService", "Consumer"}

\* the outcome of resolve(target) read from the registered and the cached
\* classes alone
OutcomeByRegistration(target, regs, cached) ==
    IF target \in cached
    THEN "ok"
    ELSE IF /\ target \in regs
            /\ \A i \in 1..Len(ParamTypes(target)) :
                  ParamTypes(target)[i].cls \in regs \cup cached
    THEN "ok"
    ELSE "UnregisteredDependency"

\* C30: whichever options TransientService was registered with, a resolve
\* ends as the registered and cached classes alone determine, every class is
\* constructed at most once and every resolve returns the one cached object
C30_OptionsNotInterpreted ==
    /\ \A c \in OptionsParty :
          /\ ctorCount[c] <= 1
          /\ returned[c] # {} =>
                (c \in DOMAIN instances /\ returned[c] = {instances[c]})
    /\ (last.op = "resolve" /\ last.target \in OptionsParty) =>
          /\ last.outcome =
                 OutcomeByRegistration(last.target, last.regs, last.cached0)
          /\ last.outcome = "ok" => last.val = instances[last.target]
    /\ \A o \in 1..Len(objs) :
          objs[o].cls = "Consumer" =>
              objs[o].args = << Inst(instances["TransientService"]) >>

\* TransientService is registered with providedIn 'transient', was injected
\* into Consumer and was resolved again afterwards: it was built once
C30_Witness ==
    /\ "TransientService" \in DOMAIN metadata
    /\ metadata["TransientService"].options = "transient"
    /\ "Consumer" \in DOMAIN instances
    /\ Finished("resolve") /\ last.target = "TransientService"
    /\ last.outcome = "ok"
    /\ "TransientService" \in last.cached0
    /\ ctorCount["TransientService"] = 1

\* C31: every cached identity has a Registration, and its cached object is
\* one whose constructor has returned: an object of that class in `objs',
\* while no activation of resolve for the identity is still on the stack
C31_CacheHoldsBuiltRegistered ==
    \A c \in DOMAIN instances :
        /\ c \in DOMAIN metadata
        /\ instances[c] \in 1..Len(objs)
        /\ objs[instances[c]].cls = c
        /\ ctorCount[c] >= 1
        /\ \A i \in 1..Len(stack) : stack[i].target # c

\* a resolve failed on an unregistered dependency after it had cached the
\* dependency of an earlier slot
C31_Witness ==
    /\ Finished("resolve")
    /\ last.outcome = "UnregisteredDependency"
    /\ last.grew
    /\ DOMAIN instances # {}
    /\ last.calls \ last.regs # {}

\* C32: when resolve(UserService) fails because Logger, the second slot, is
\* unregistered, UserService is not cached, the call returns nothing and
\* Config, the first slot, is cached; and whenever resolve(UserService)
\* succeeds, its arguments are the cached Config and Logger, each built once
C32_FailureKeepsEarlierSlots ==
    /\ ( /\ Finished("resolve") /\ last.target = "UserService"
         /\ last.outcome = "UnregisteredDependency" )
          => /\ "UserService" \notin DOMAIN instances
             /\ last.val = NoObj
             /\ stack = << >>
             /\ ({"UserService", "Config"} \subseteq last.regs
                    => "Config" \in DOMAIN instances)
             /\ last.cached0 \subseteq DOMAIN instances
    /\ ( /\ Finished("resolve") /\ last.target = "UserService"
         /\ last.outcome = "ok" )
          => /\ objs[last.val].args = << Inst(instances["Config"]),
                                         Inst(instances["Logger"]) >>
             /\ ctorCount["Config"] = 1
             /\ ctorCount["Logger"] = 1

\* resolve(UserService) has just failed on Logger and built Config on the
\* way
C32_Witness ==
    /\ Finished("resolve") /\ last.target = "UserService"
    /\ last.outcome = "UnregisteredDependency"
    /\ {"UserService", "Config"} \subseteq last.regs
    /\ "Logger" \notin last.regs
    /\ "Config" \notin last.cached0
    /\ "Config" \in DOMAIN instances

\* C33: an identity that was cached when it was registered again, by
\* register or by a module listing it, is still cached with the same
\* instance, and resolve has never returned another one for it
C33_RegisterKeepsCache ==
    \A t \in DOMAIN lastReg.inst0 :
        /\ t \in DOMAIN instances
        /\ instances[t] = lastReg.inst0[t]
        /\ returned[t] = {lastReg.inst0[t]}

\* a cached identity was registered again with other options, and a resolve
\* of it has returned the instance built before
C33_Witness ==
    /\ lastReg.op = "register"
    /\ lastReg.target \in DOMAIN lastReg.inst0
    /\ lastReg.prev[lastReg.target].options # lastReg.options
    /\ Finished("resolve") /\ last.target = lastReg.target
    /\ last.target \in last.cached0
    /\ last.outcome = "ok"
    /\ last.val = lastReg.inst0[lastReg.target]

\* the class a slot of an object names: the instance's class, or the class
\* the proxy's factory resolves
SlotClass(a) == IF a.k = "inst" THEN objs[a.id].cls ELSE handles[a.id].factory.cls

\* C34 as stated: an eager slot holds an instance built before the object,
\* the slots follow the parameter order, and the target of a deferred slot
\* is not built before the object
C34_DeferredBuiltLater ==
    \A o \in 1..Len(objs) :
        /\ Len(objs[o].args) = Len(ParamTypes(objs[o].cls))
        /\ \A i \in 1..Len(objs[o].args) :
              LET a == objs[o].args[i] IN
              /\ SlotClass(a) = EffectiveToken(objs[o].cls, i).cls
              /\ a.k = "inst" => (a.id < o /\ a.id = instances[SlotClass(a)])
              /\ a.k = "lazy" =>
                    (SlotClass(a) \in DOMAIN instances
                        => instances[SlotClass(a)] > o)

\* C34: an eager slot holds the cached instance of its class, built before
\* the object; the slots follow the parameter order, and of two eager slots
\* built by the same resolve the earlier parameter is built first; a
\* deferred slot is a proxy that is not materialized while the object is
\* being built
C34_EagerBeforeDeferredUntouched ==
    /\ \A o \in 1..Len(objs) :
          /\ Len(objs[o].args) = Len(ParamTypes(objs[o].cls))
          /\ \A i \in 1..Len(objs[o].args) :
                LET a == objs[o].args[i] IN
                /\ SlotClass(a) = EffectiveToken(objs[o].cls, i).cls
                /\ a.k = "inst" =>
                      (a.id < o /\ a.id = instances[SlotClass(a)])
    /\ \A f \in 1..Len(stack) : \A i \in 1..Len(stack[f].args) :
          LET a == stack[f].args[i] IN
          a.k = "lazy" => /\ handles[a.id].inst = NoObj
                          /\ handles[a.id].calls = 0
    /\ ( /\ Finished("resolve") /\ last.target = "UserService"
         /\ last.outcome = "ok" /\ last.cached0 = {} )
          => /\ instances["Config"] < instances["Logger"]
             /\ instances["Logger"] < instances["UserService"]

\* UserService was built with nothing cached before: Config and Logger were
\* built for it, in that order
C34_Witness ==
    /\ Finished("resolve") /\ last.target = "UserService"
    /\ last.outcome = "ok" /\ last.cached0 = {}
    /\ objs[3].cls = "UserService"
    /\ objs[3].args = << Inst(1), Inst(2) >>

\* C35: a connect() that returned without throwing left the service
\* connected, whatever retryAttempts was
C35_ReturnMeansConnected ==
    db.lastConnect.outcome \in {"ok", "returned", "connected already"}
        => db.lastConnect.connected

\* C36: at most one attemptReconnection is between its start and the
\* settling of its mongoose.disconnect / mongoose.connect calls
C36_OneAttemptInFlight == Cardinality(db.inflight) <= 1

====
